---- MODULE Spec2Model ----
(***************************************************************************)
(* Model of src/main.py: extract_pdf_info (the extractor), print_pdf_info  *)
(* (the presenter) and main (the command line entry point).                *)
(*                                                                         *)
(* A Python value of type Optional[str] is a record [isNone, s]: None is   *)
(* [isNone |-> TRUE, s |-> <<>>], a str is [isNone |-> FALSE, s |-> chars].*)
(* Standard output and standard error are sequences of print calls, each   *)
(* an event record [k, n, v, s] built by the operator that models the      *)
(* print statement.                                                        *)
(***************************************************************************)
EXTENDS Integers, Sequences, FiniteSets, TLC

VARIABLES arg, file, pc, docOpen, page_num, page_text, text, has_images,
          exc, err, pdf_info, print_page_num, stdout, stderr, exitStatus, log

vars == <<arg, file, pc, docOpen, page_num, page_text, text, has_images,
          exc, err, pdf_info, print_page_num, stdout, stderr, exitStatus, log>>

----------------------------------------------------------------------------
(* Bounds of the model *)

MaxPages == 2

MaxPrintPages == 3

MaxChunks == 2

(* Program constants *)

ChunkSize == 1000

SepWidth == 80

DebugPrefixLen == 100

----------------------------------------------------------------------------
(* Python values *)

None == [isNone |-> TRUE, s |-> <<>>]

Str(chars) == [isNone |-> FALSE, s |-> chars]

Truthy(x) == (~x.isNone) /\ Len(x.s) > 0

PyOr(x, d) == IF Truthy(x) THEN x ELSE d

Min(a, b) == IF a < b THEN a ELSE b

\* s[i:j] with 0 <= i <= j
Slice(s, i, j) == SubSeq(s, i + 1, Min(j, Len(s)))

RECURSIVE Range(_, _, _)
Range(start, stop, step) ==
    IF start >= stop THEN <<>>
    ELSE <<start>> \o Range(start + step, stop, step)

IsSpace(c) == c \in {" ", "\n", "\t"}

RECURSIVE LStrip(_)
LStrip(s) ==
    IF s = <<>> THEN <<>>
    ELSE IF IsSpace(Head(s)) THEN LStrip(Tail(s)) ELSE s

RECURSIVE RStrip(_)
RStrip(s) ==
    IF s = <<>> THEN <<>>
    ELSE IF IsSpace(s[Len(s)]) THEN RStrip(SubSeq(s, 1, Len(s) - 1)) ELSE s

Strip(s) == RStrip(LStrip(s))

Repeat(c, n) == [i \in 1..n |-> c]

----------------------------------------------------------------------------
(* Print events *)

Ev(k, n, v, s) == [k |-> k, n |-> n, v |-> v, s |-> s]

NoTextLiteral == <<"N", "o", " ", "t", "e", "x", "t">>

DebugLines(num, ptext, page) ==
    << Ev("debug_len", num, Len(PyOr(ptext, Str(<<>>)).s), <<>>),
       Ev("debug_first", num, 0,
          IF Truthy(ptext) THEN Slice(ptext.s, 0, DebugPrefixLen) ELSE NoTextLiteral),
       Ev("debug_chars", num, page.chars, <<>>),
       Ev("debug_images", num, page.images, <<>>) >>

ReportKinds == {"num_pages", "ocr_note", "text_content",
                "page_header", "chunk", "chunk_sep", "page_sep"}


----------------------------------------------------------------------------
(* Inputs: what is at the path given to the program *)

NativeTexts == {None, Str(<<>>), Str(<<" ">>), Str(<<"a", "b">>)}

Pages == {[native |-> t, images |-> m, chars |-> Len(t.s)] :
             t \in NativeTexts, m \in 0..1}

OcrOutputs == {<<>>, <<"x", "y">>}

SeqsUpTo(S, n) == UNION {[1..k -> S] : k \in 0..n}

Files == {[kind |-> "missing", pages |-> <<>>],
          [kind |-> "corrupt", pages |-> <<>>]}
         \cup {[kind |-> "pdf", pages |-> p] : p \in SeqsUpTo(Pages, MaxPages)}

NoExc == "none"

OpenCause(f) == IF f.kind = "missing" THEN "FileNotFoundError" ELSE "PDFSyntaxError"

Call(k, n, r) == [k |-> k, n |-> n, r |-> r]

----------------------------------------------------------------------------
(* main, lines 87-98 *)

Init ==
    /\ arg \in {None, Str(<<"p">>)}
    /\ file \in Files
    /\ pc = "main"
    /\ docOpen = FALSE
    /\ page_num = 0
    /\ page_text = None
    /\ text = <<>>
    /\ has_images = FALSE
    /\ exc = NoExc
    /\ err = <<>>
    /\ pdf_info = <<>>
    /\ print_page_num = 0
    /\ stdout = <<>>
    /\ stderr = <<>>
    /\ exitStatus = -1
    /\ log = <<>>

\* line 89: a path was given on the command line
MainArgGiven ==
    /\ pc = "main"
    /\ ~arg.isNone
    /\ pc' = "extract_open"
    /\ UNCHANGED <<arg, file, docOpen, page_num, page_text, text, has_images, exc,
                   err, pdf_info, print_page_num, stdout, stderr, exitStatus, log>>

\* lines 89-90: no argument, input() writes the prompt and reads the path
MainPrompt ==
    /\ pc = "main"
    /\ arg.isNone
    /\ stdout' = Append(stdout, Ev("prompt", 0, 0, <<>>))
    /\ arg' = Str(<<"p">>)
    /\ pc' = "extract_open"
    /\ UNCHANGED <<file, docOpen, page_num, page_text, text, has_images, exc,
                   err, pdf_info, print_page_num, stderr, exitStatus, log>>

\* line 90: input() raises at end of input
MainPromptRaise ==
    /\ pc = "main"
    /\ arg.isNone
    /\ stdout' = Append(stdout, Ev("prompt", 0, 0, <<>>))
    /\ err' = <<"EOFError">>
    /\ pc' = "main_except"
    /\ UNCHANGED <<arg, file, docOpen, page_num, page_text, text, has_images, exc,
                   pdf_info, print_page_num, stderr, exitStatus, log>>

----------------------------------------------------------------------------
(* extract_pdf_info, lines 21-55 *)

\* lines 23-26
OpenPdf ==
    /\ pc = "extract_open"
    /\ file.kind = "pdf"
    /\ docOpen' = TRUE
    /\ text' = <<>>
    /\ has_images' = FALSE
    /\ log' = Append(log, Call("open", 0, <<>>))
    /\ pc' = "loop"
    /\ UNCHANGED <<arg, file, page_num, page_text, exc, err, pdf_info,
                   print_page_num, stdout, stderr, exitStatus>>

\* line 23: pdfplumber.open raises, nothing was opened
OpenPdfRaise ==
    /\ pc = "extract_open"
    /\ file.kind # "pdf"
    /\ exc' = OpenCause(file)
    /\ pc' = "except"
    /\ UNCHANGED <<arg, file, docOpen, page_num, page_text, text, has_images, err,
                   pdf_info, print_page_num, stdout, stderr, exitStatus, log>>

\* line 28: the loop takes the next page
LoopNext ==
    /\ pc = "loop"
    /\ page_num < Len(file.pages)
    /\ page_num' = page_num + 1
    /\ pc' = "extract_text"
    /\ UNCHANGED <<arg, file, docOpen, page_text, text, has_images, exc, err,
                   pdf_info, print_page_num, stdout, stderr, exitStatus, log>>

\* line 28: no page is left
LoopEnd ==
    /\ pc = "loop"
    /\ page_num >= Len(file.pages)
    /\ pc' = "return"
    /\ UNCHANGED <<arg, file, docOpen, page_num, page_text, text, has_images, exc,
                   err, pdf_info, print_page_num, stdout, stderr, exitStatus, log>>

\* line 30
ExtractText ==
    /\ pc = "extract_text"
    /\ page_text' = file.pages[page_num].native
    /\ log' = Append(log, Call("extract_text", page_num, <<>>))
    /\ pc' = "ocr_test"
    /\ UNCHANGED <<arg, file, docOpen, page_num, text, has_images, exc, err,
                   pdf_info, print_page_num, stdout, stderr, exitStatus>>

\* line 30: page.extract_text raises
ExtractTextRaise ==
    /\ pc = "extract_text"
    /\ exc' = "PDFTextError"
    /\ log' = Append(log, Call("extract_text", page_num, <<>>))
    /\ pc' = "with_exit"
    /\ UNCHANGED <<arg, file, docOpen, page_num, page_text, text, has_images, err,
                   pdf_info, print_page_num, stdout, stderr, exitStatus>>

\* line 33
NeedsOcr(ptext, page) == (~Truthy(ptext)) /\ page.images > 0

\* lines 33-37
OcrFallback ==
    /\ pc = "ocr_test"
    /\ NeedsOcr(page_text, file.pages[page_num])
    /\ has_images' = TRUE
    /\ \E r \in OcrOutputs :
          /\ page_text' = Str(r)
          /\ log' = Append(log, Call("ocr", page_num, r))
    /\ pc' = "record"
    /\ UNCHANGED <<arg, file, docOpen, page_num, text, exc, err, pdf_info,
                   print_page_num, stdout, stderr, exitStatus>>

\* OcrRaise with the failure swallowed: the page degrades to an empty text
OcrRaise_Swallowed ==
    /\ pc = "ocr_test"
    /\ NeedsOcr(page_text, file.pages[page_num])
    /\ has_images' = TRUE
    /\ \E c \in {"RasterError", "TesseractError"} : exc' = c
    /\ page_text' = Str(<<>>)
    /\ log' = Append(log, Call("ocr", page_num, <<>>))
    /\ pc' = "record"
    /\ UNCHANGED <<arg, file, docOpen, page_num, text, err, pdf_info,
                   print_page_num, stdout, stderr, exitStatus>>

\* lines 34-37: page.to_image or pytesseract.image_to_string raises
OcrRaise ==
    /\ pc = "ocr_test"
    /\ NeedsOcr(page_text, file.pages[page_num])
    /\ has_images' = TRUE
    /\ \E c \in {"RasterError", "TesseractError"} : exc' = c
    /\ log' = Append(log, Call("ocr", page_num, <<>>))
    /\ pc' = "with_exit"
    /\ UNCHANGED <<arg, file, docOpen, page_num, page_text, text, err, pdf_info,
                   print_page_num, stdout, stderr, exitStatus>>

\* line 33: the condition is false
SkipOcr ==
    /\ pc = "ocr_test"
    /\ ~NeedsOcr(page_text, file.pages[page_num])
    /\ pc' = "record"
    /\ UNCHANGED <<arg, file, docOpen, page_num, page_text, text, has_images, exc,
                   err, pdf_info, print_page_num, stdout, stderr, exitStatus, log>>

\* Recorded without the default: text.append(page_text)
Recorded_NoDefault(ptext) == ptext

\* line 41
Recorded(ptext) == PyOr(ptext, Str(<<>>))

\* lines 39-46: debug output, append, and the break that leaves the loop
RecordPage ==
    /\ pc = "record"
    /\ stdout' = stdout \o DebugLines(page_num, page_text, file.pages[page_num])
    /\ text' = Append(text, Recorded(page_text))
    /\ log' = Append(log, Call("append", page_num, <<>>))
    /\ pc' = "return"
    /\ UNCHANGED <<arg, file, docOpen, page_num, page_text, has_images, exc, err,
                   pdf_info, print_page_num, stderr, exitStatus>>

\* line 39: the first debug print raises (the stream rejects the write)
DebugPrintRaise ==
    /\ pc = "record"
    /\ exc' = "OSError"
    /\ pc' = "with_exit"
    /\ UNCHANGED <<arg, file, docOpen, page_num, page_text, text, has_images, err,
                   pdf_info, print_page_num, stdout, stderr, exitStatus, log>>

\* ReturnResult without the with block: the document stays open
ReturnResult_NoClose ==
    /\ pc = "return"
    /\ pdf_info' = << [text |-> text,
                       num_pages |-> Len(file.pages),
                       has_images |-> has_images] >>
    /\ pc' = "print_prelude"
    /\ UNCHANGED <<arg, file, docOpen, page_num, page_text, text, has_images, exc,
                   err, print_page_num, stdout, stderr, exitStatus, log>>

\* lines 48-52, and the with block of line 23 closing the document on the way out
ReturnResult ==
    /\ pc = "return"
    /\ pdf_info' = << [text |-> text,
                       num_pages |-> Len(file.pages),
                       has_images |-> has_images] >>
    /\ docOpen' = FALSE
    /\ log' = Append(log, Call("close", 0, <<>>))
    /\ pc' = "print_prelude"
    /\ UNCHANGED <<arg, file, page_num, page_text, text, has_images, exc, err,
                   print_page_num, stdout, stderr, exitStatus>>

\* Unwind without the close: the handle leaks on the error path
Unwind_Leak ==
    /\ pc = "with_exit"
    /\ pc' = "except"
    /\ UNCHANGED <<arg, file, docOpen, page_num, page_text, text, has_images, exc,
                   err, pdf_info, print_page_num, stdout, stderr, exitStatus, log>>

\* line 23: the with block closes the document while the exception propagates
Unwind ==
    /\ pc = "with_exit"
    /\ docOpen' = FALSE
    /\ log' = Append(log, Call("close", 0, <<>>))
    /\ pc' = "except"
    /\ UNCHANGED <<arg, file, page_num, page_text, text, has_images, exc, err,
                   pdf_info, print_page_num, stdout, stderr, exitStatus>>

\* line 55
Wrap(cause) == <<"Error extracting PDF info: ", cause>>

\* lines 54-55
Except ==
    /\ pc = "except"
    /\ err' = Wrap(exc)
    /\ pc' = "main_except"
    /\ UNCHANGED <<arg, file, docOpen, page_num, page_text, text, has_images, exc,
                   pdf_info, print_page_num, stdout, stderr, exitStatus, log>>

----------------------------------------------------------------------------
(* print_pdf_info, lines 57-73 *)

\* lines 59-62
Prelude(info) ==
    <<Ev("num_pages", 0, info.num_pages, <<>>)>>
    \o (IF info.has_images THEN <<Ev("ocr_note", 0, 0, <<>>)>> ELSE <<>>)
    \o <<Ev("text_content", 0, 0, <<>>)>>

\* ShouldPrint without strip(): if page_text:
ShouldPrint_NoStrip(ptext) == ptext.s # <<>>

\* line 66
ShouldPrint(ptext) == Strip(ptext.s) # <<>>

\* Chunks that keeps the full windows only and drops a shorter last one
Chunks_DropTail(s) ==
    LET starts == Range(0, Len(s) - ChunkSize + 1, ChunkSize)
    IN  [k \in 1..Len(starts) |-> Slice(s, starts[k], starts[k] + ChunkSize)]

\* line 69
Chunks(s) ==
    LET starts == Range(0, Len(s), ChunkSize)
    IN  [k \in 1..Len(starts) |-> Slice(s, starts[k], starts[k] + ChunkSize)]

\* lines 70-72
RECURSIVE ChunkPrints(_)
ChunkPrints(chunks) ==
    IF chunks = <<>> THEN <<>>
    ELSE << Ev("chunk", 0, 0, Head(chunks)),
            Ev("chunk_sep", 0, SepWidth, Repeat("-", SepWidth)) >>
         \o ChunkPrints(Tail(chunks))

\* lines 66-73: what one iteration of the loop prints
PagePrints(num, ptext) ==
    IF ShouldPrint(ptext)
    THEN <<Ev("page_header", num, 0, <<>>)>>
         \o ChunkPrints(Chunks(ptext.s))
         \o <<Ev("page_sep", 0, SepWidth, Repeat("=", SepWidth))>>
    ELSE <<>>

\* lines 59-62
PrintPrelude ==
    /\ pc = "print_prelude"
    /\ stdout' = stdout \o Prelude(pdf_info[1])
    /\ print_page_num' = 0
    /\ pc' = "print_loop"
    /\ UNCHANGED <<arg, file, docOpen, page_num, page_text, text, has_images, exc,
                   err, pdf_info, stderr, exitStatus, log>>

\* line 59: the first print of the report raises (the stream rejects the write)
PreludePrintRaise ==
    /\ pc = "print_prelude"
    /\ err' = <<"OSError">>
    /\ pc' = "main_except"
    /\ UNCHANGED <<arg, file, docOpen, page_num, page_text, text, has_images, exc,
                   pdf_info, print_page_num, stdout, stderr, exitStatus, log>>

\* lines 65-73: one iteration of the loop over the pages
PrintPage ==
    /\ pc = "print_loop"
    /\ print_page_num < Len(pdf_info[1].text)
    /\ print_page_num' = print_page_num + 1
    /\ stdout' = stdout \o PagePrints(print_page_num + 1,
                                      pdf_info[1].text[print_page_num + 1])
    /\ UNCHANGED <<arg, file, pc, docOpen, page_num, page_text, text, has_images,
                   exc, err, pdf_info, stderr, exitStatus, log>>

\* line 71: the print of a page's first chunk raises, after the header was written
PagePrintRaise ==
    /\ pc = "print_loop"
    /\ print_page_num < Len(pdf_info[1].text)
    /\ ShouldPrint(pdf_info[1].text[print_page_num + 1])
    /\ print_page_num' = print_page_num + 1
    /\ stdout' = Append(stdout, Ev("page_header", print_page_num + 1, 0, <<>>))
    /\ err' = <<"OSError">>
    /\ pc' = "main_except"
    /\ UNCHANGED <<arg, file, docOpen, page_num, page_text, text, has_images, exc,
                   pdf_info, stderr, exitStatus, log>>

\* line 65: no page is left, print_pdf_info returns
PrintLoopEnd ==
    /\ pc = "print_loop"
    /\ print_page_num >= Len(pdf_info[1].text)
    /\ pc' = "main_return"
    /\ UNCHANGED <<arg, file, docOpen, page_num, page_text, text, has_images, exc,
                   err, pdf_info, print_page_num, stdout, stderr, exitStatus, log>>

----------------------------------------------------------------------------
(* main, the two ways it ends *)

\* line 94 falls through: the process ends with status 0
MainReturn ==
    /\ pc = "main_return"
    /\ exitStatus' = 0
    /\ pc' = "done"
    /\ UNCHANGED <<arg, file, docOpen, page_num, page_text, text, has_images, exc,
                   err, pdf_info, print_page_num, stdout, stderr, log>>

\* MainExcept without sys.exit(1): the process ends with status 0
MainExcept_NoExit ==
    /\ pc = "main_except"
    /\ stderr' = Append(stderr, Ev("error", 0, 0, <<"Error: ">> \o err))
    /\ exitStatus' = 0
    /\ pc' = "done"
    /\ UNCHANGED <<arg, file, docOpen, page_num, page_text, text, has_images, exc,
                   err, pdf_info, print_page_num, stdout, log>>

\* lines 96-98
MainExcept ==
    /\ pc = "main_except"
    /\ stderr' = Append(stderr, Ev("error", 0, 0, <<"Error: ">> \o err))
    /\ exitStatus' = 1
    /\ pc' = "done"
    /\ UNCHANGED <<arg, file, docOpen, page_num, page_text, text, has_images, exc,
                   err, pdf_info, print_page_num, stdout, log>>

Next ==
    \/ MainArgGiven
    \/ MainPrompt
    \/ MainPromptRaise
    \/ OpenPdf
    \/ OpenPdfRaise
    \/ LoopNext
    \/ LoopEnd
    \/ ExtractText
    \/ ExtractTextRaise
    \/ OcrFallback
    \/ OcrRaise
    \/ SkipOcr
    \/ RecordPage
    \/ DebugPrintRaise
    \/ ReturnResult
    \/ Unwind
    \/ Except
    \/ PrintPrelude
    \/ PreludePrintRaise
    \/ PrintPage
    \/ PagePrintRaise
    \/ PrintLoopEnd
    \/ MainReturn
    \/ MainExcept

\* A run of the program: main on one command line and one file
Spec == Init /\ [][Next]_vars

----------------------------------------------------------------------------
(* print_pdf_info on any result a caller may hand it *)

PatChar(i) == IF i % 3 = 1 THEN "a" ELSE IF i % 3 = 2 THEN "b" ELSE " "

Pattern(n) == [i \in 1..n |-> PatChar(i)]

Blank(n) == [i \in 1..n |-> IF i % 2 = 1 THEN " " ELSE "\n"]

PrintTexts ==
    { Str(<<>>), Str(Blank(2)), Str(<<" ", "a", "\n">>),
      Str(Pattern(ChunkSize)), Str(Pattern(ChunkSize + 1)),
      Str(Pattern(MaxChunks * ChunkSize)) }

PrintInputs ==
    { [text |-> t, num_pages |-> n, has_images |-> h] :
         t \in SeqsUpTo(PrintTexts, MaxPrintPages),
         n \in {0, MaxPrintPages},
         h \in BOOLEAN }

PrintInit ==
    /\ arg = None
    /\ file = [kind |-> "missing", pages |-> <<>>]
    /\ pc = "print_prelude"
    /\ docOpen = FALSE
    /\ page_num = 0
    /\ page_text = None
    /\ text = <<>>
    /\ has_images = FALSE
    /\ exc = NoExc
    /\ err = <<>>
    /\ pdf_info \in {<<r>> : r \in PrintInputs}
    /\ print_page_num = 0
    /\ stdout = <<>>
    /\ stderr = <<>>
    /\ exitStatus = -1
    /\ log = <<>>

PrintNext ==
    \/ PrintPrelude
    \/ PrintPage
    \/ PrintLoopEnd

PrintSpec == PrintInit /\ [][PrintNext]_vars

----------------------------------------------------------------------------
(* Vocabulary of the properties *)

Returned == pdf_info # <<>>

OcrCalled(i) == \E k \in 1..Len(log) : log[k].k = "ocr" /\ log[k].n = i

OcrResult(i) ==
    LET k == CHOOSE j \in 1..Len(log) : log[j].k = "ocr" /\ log[j].n = i
    IN  log[k].r

\* the native text is missing: None or of length zero
NoNativeText(t) == t.isNone \/ Len(t.s) = 0

\* the native text is missing or holds white space only
BlankNativeText(t) == t.isNone \/ \A k \in 1..Len(t.s) : IsSpace(t.s[k])

HasNonWhitespace(s) == \E k \in 1..Len(s) : ~IsSpace(s[k])

IsReport(e) == e.k \in ReportKinds

IsDebug(e) == e.k \in {"debug_len", "debug_first", "debug_chars", "debug_images"}

----------------------------------------------------------------------------
(* C1: a successful extract returns one entry per page of the document, in
   page order, and num_pages equal to the number of pages, so the length of
   the text list equals num_pages for every page count. *)
C1_OneEntryPerPage ==
    Returned =>
        LET r == pdf_info[1]
            N == Len(file.pages)
        IN  /\ r.num_pages = N
            /\ Len(r.text) = N
            /\ Len(r.text) = r.num_pages
            /\ \A i \in 1..Min(N, Len(r.text)) :
                  ~NoNativeText(file.pages[i].native)
                      => r.text[i] = file.pages[i].native

(* C2: on a successful extract has_images is true exactly when some page of
   the document, at any position, has no native text and holds an image. *)
C2_UsedOcrIffSomePageQualifies ==
    Returned =>
        (pdf_info[1].has_images
            <=> \E i \in 1..Len(file.pages) :
                   /\ NoNativeText(file.pages[i].native)
                   /\ file.pages[i].images > 0)

(* C3: for each page of the document, OCR is invoked exactly when the native
   text is None, empty or white space only, and the page holds an image. *)
C3_OcrIffBlankAndImages ==
    Returned =>
        \A i \in 1..Len(file.pages) :
            OcrCalled(i)
                <=> (BlankNativeText(file.pages[i].native)
                     /\ file.pages[i].images > 0)

(* C4: the entry recorded for a page is a string and never None; it is the
   native text unchanged when the native text is not empty, and OCR is then
   not invoked; it is the OCR result when the page has no native text and
   holds an image; it is the empty string when the page has no native text
   and no image, and has_images is not changed while that page is handled. *)
C4_EntryState ==
    \A i \in 1..Len(text) :
        LET p == file.pages[i]
            e == text[i]
        IN  /\ ~e.isNone
            /\ ~NoNativeText(p.native) => (e = p.native /\ ~OcrCalled(i))
            /\ (NoNativeText(p.native) /\ p.images > 0)
                   => (OcrCalled(i) /\ e = Str(OcrResult(i)))
            /\ (NoNativeText(p.native) /\ p.images = 0)
                   => (e = Str(<<>>) /\ ~OcrCalled(i))

C4_FlagStep ==
    (/\ pc \in {"extract_text", "ocr_test", "record"}
     /\ NoNativeText(file.pages[page_num].native)
     /\ file.pages[page_num].images = 0)
        => has_images' = has_images

C4_RecordedEntry == []C4_EntryState /\ [][C4_FlagStep]_vars

C4_Witness ==
    /\ pc = "done"
    /\ Len(text) = 1
    /\ NoNativeText(file.pages[1].native)
    /\ file.pages[1].images > 0
    /\ text[1] = Str(<<"x", "y">>)

(* C5: when opening the document, the native extraction of a page or the
   OCR of a page raises, extract returns no result and raises one error
   whose message wraps the cause; a result is returned only when every page
   the loop started was recorded and nothing raised. *)
C5_FailsAtomically ==
    /\ exc # NoExc => ~Returned
    /\ (exc # NoExc /\ pc \in {"main_except", "done"})
           => err = <<"Error extracting PDF info: ", exc>>
    /\ Returned =>
          /\ exc = NoExc
          /\ Len(pdf_info[1].text) = page_num
          /\ pdf_info[1].text = text

C5_Witness ==
    /\ pc = "done"
    /\ exc = "TesseractError"
    /\ ~Returned
    /\ err = <<"Error extracting PDF info: ", "TesseractError">>

(* C6: the run ends with status 0 only if extraction succeeded and the whole
   report was written to standard output; when reading the path or the
   extraction fails, the run ends with status 1, standard error holds exactly
   one line, which begins with "Error: ", and standard output holds no line
   of the report. *)
C6_ExitContract ==
    /\ exitStatus = 0 =>
          /\ Returned
          /\ exc = NoExc
          /\ print_page_num = Len(pdf_info[1].text)
          /\ \E k \in 1..Len(stdout) :
                stdout[k].k = "num_pages" /\ stdout[k].v = pdf_info[1].num_pages
          /\ \E k \in 1..Len(stdout) : stdout[k].k = "text_content"
          /\ stderr = <<>>
    /\ (pc = "done" /\ (exc # NoExc \/ err = <<"EOFError">>)) =>
          /\ exitStatus = 1
          /\ Len(stderr) = 1
          /\ stderr[1].k = "error"
          /\ Head(stderr[1].s) = "Error: "
          /\ \A k \in 1..Len(stdout) : ~IsReport(stdout[k])

C6_Witness ==
    /\ pc = "done"
    /\ file.kind = "missing"
    /\ exc = "FileNotFoundError"
    /\ exitStatus = 1
    /\ Len(stderr) = 1

(* C7: the document is closed in every state after extract returned a result
   or raised, also when a page's extraction or OCR raised, and it is open
   exactly between a successful open and that exit. *)
C7_DocumentReleased ==
    /\ pc \in {"except", "main_except", "print_prelude", "print_loop",
               "main_return", "done"} => ~docOpen
    /\ pc \in {"loop", "extract_text", "ocr_test", "record", "return",
               "with_exit"} => docOpen
    /\ pc \in {"main", "extract_open"} => ~docOpen

C7_Witness ==
    /\ pc = "done"
    /\ exc = "RasterError"
    /\ \E k \in 1..Len(log) : log[k].k = "open"
    /\ ~docOpen

(* C10: pages are handled in increasing order, a page's native extraction
   precedes its OCR call, a page is recorded before the next one is started,
   every debug line precedes the first line of the report, and the report
   starts only after extract returned a result with the document closed. *)
C10_Sequential ==
    /\ \A j \in 1..Len(log) : \A k \in 1..Len(log) :
          (j < k /\ log[j].n > 0 /\ log[k].n > 0) => log[j].n <= log[k].n
    /\ \A k \in 1..Len(log) :
          log[k].k = "ocr" =>
              \E j \in 1..(k - 1) :
                  log[j].k = "extract_text" /\ log[j].n = log[k].n
    /\ \A k \in 1..Len(log) :
          (log[k].k = "extract_text" /\ log[k].n > 1) =>
              \E j \in 1..(k - 1) :
                  log[j].k = "append" /\ log[j].n = log[k].n - 1
    /\ \A j \in 1..Len(stdout) : \A k \in 1..Len(stdout) :
          (j < k /\ IsReport(stdout[j])) => ~IsDebug(stdout[k])
    /\ (\E k \in 1..Len(stdout) : IsReport(stdout[k])) =>
          /\ Returned
          /\ ~docOpen
          /\ log[Len(log)].k = "close"

C10_Witness ==
    /\ pc = "done"
    /\ exitStatus = 0
    /\ OcrCalled(1)
    /\ \E j \in 1..Len(stdout) : \E k \in 1..Len(stdout) :
          j < k /\ IsDebug(stdout[j]) /\ stdout[k].k = "page_header"

----------------------------------------------------------------------------
(* Properties of print_pdf_info, checked under PrintSpec *)

Indices(n) == [i \in 1..n |-> i]

\* the page numbers of the headers of an output, in the order written
HeaderNums(out) ==
    LET hs == SelectSeq(out, LAMBDA e : e.k = "page_header")
    IN  [k \in 1..Len(hs) |-> hs[k].n]

\* the positions among the first n pages whose text has a non-blank character
NonBlankPages(pages, n) ==
    SelectSeq(Indices(n), LAMBDA i : HasNonWhitespace(pages[i].s))

\* what a step appended to standard output
Appended == SubSeq(stdout', Len(stdout) + 1, Len(stdout'))

RECURSIVE ConcatChunks(_, _)
\* the characters of the first k chunks of one page's output
ConcatChunks(seg, k) ==
    IF k = 0 THEN <<>> ELSE ConcatChunks(seg, k - 1) \o seg[2 * k].s

CeilDiv(a, b) == (a + b - 1) \div b

(* C8: the report holds a header "Page i:" for position i exactly when
   pages[i] has a character that is not white space; the headers come in
   increasing i and keep the position of the page in the sequence; a blank
   or white-space-only page writes nothing at all. *)
C8_HeadersState ==
    pc \in {"print_loop", "main_return"} =>
        HeaderNums(stdout) = NonBlankPages(pdf_info[1].text, print_page_num)

C8_BlankStep ==
    (/\ pc = "print_loop"
     /\ print_page_num' = print_page_num + 1
     /\ ~HasNonWhitespace(pdf_info[1].text[print_page_num + 1].s))
        => stdout' = stdout

C8_Headers == []C8_HeadersState /\ [][C8_BlankStep]_vars

C8_Witness ==
    /\ pc = "main_return"
    /\ Len(pdf_info[1].text) = 3
    /\ pdf_info[1].text[2] = Str(Blank(2))
    /\ HasNonWhitespace(pdf_info[1].text[1].s)
    /\ HasNonWhitespace(pdf_info[1].text[3].s)
    /\ HeaderNums(stdout) = <<1, 3>>

(* C9: a printed page whose text has length L is written as its header, then
   ceil(L / 1000) chunks in order, each followed by one line of 80 "-", then
   one line of 80 "="; every chunk but the last has 1000 characters, the
   last has between 1 and 1000, and the chunks concatenated are the text. *)
C9_PageStep ==
    (/\ pc = "print_loop"
     /\ print_page_num' = print_page_num + 1
     /\ HasNonWhitespace(pdf_info[1].text[print_page_num + 1].s))
        => LET t   == pdf_info[1].text[print_page_num + 1].s
               L   == Len(t)
               K   == CeilDiv(L, ChunkSize)
               seg == Appended
           IN  /\ L >= 1
               /\ Len(seg) = 2 * K + 2
               /\ seg[1].k = "page_header"
               /\ seg[1].n = print_page_num + 1
               /\ \A k \in 1..K :
                     /\ seg[2 * k].k = "chunk"
                     /\ Len(seg[2 * k].s) >= 1
                     /\ Len(seg[2 * k].s) <= ChunkSize
                     /\ k < K => Len(seg[2 * k].s) = ChunkSize
                     /\ seg[2 * k + 1].k = "chunk_sep"
                     /\ seg[2 * k + 1].s = Repeat("-", SepWidth)
               /\ ConcatChunks(seg, K) = t
               /\ seg[2 * K + 2].k = "page_sep"
               /\ seg[2 * K + 2].s = Repeat("=", SepWidth)
               /\ \A k \in 1..(2 * K + 1) : seg[k].k # "page_sep"

C9_Chunks == [][C9_PageStep]_vars

C9_Witness ==
    /\ pc = "print_loop"
    /\ print_page_num >= 1
    /\ Len(pdf_info[1].text[print_page_num].s) = ChunkSize + 1
    /\ Len(stdout) >= 6
    /\ stdout[Len(stdout)].k = "page_sep"
    /\ stdout[Len(stdout) - 1].k = "chunk_sep"
    /\ stdout[Len(stdout) - 2].k = "chunk"
    /\ Len(stdout[Len(stdout) - 2].s) = 1
    /\ Len(stdout[Len(stdout) - 4].s) = ChunkSize

====
